---------------------------- MODULE Spec2Model ----------------------------
(***************************************************************************)
(* Multi-Document KSB Mapper (src/app.py).                                 *)
(*                                                                         *)
(* One execution of the Streamlit script: the sidebar builds file_ksb_map  *)
(* from the uploaded files and the text entered for each of them; a click  *)
(* on "Generate Consolidated Mapping" scans every uploaded file for its    *)
(* terms, sorts the collected rows and reports the outcome.                *)
(*                                                                         *)
(* Python strings are sequences of one-character strings; Ord gives the    *)
(* code point of a character, which is what decides str comparison,        *)
(* \b word boundaries and case folding.                                    *)
(***************************************************************************)
EXTENDS Integers, Sequences, FiniteSets, TLC

\* ------------------------------------------------------------------ bounds
\* Largest number of files in one upload.
MaxFiles == 2
\* Number of pages of the longest PDF of the document menu.
MaxPages == 3

\* ------------------------------------------------------------- characters
NL == "\n"
BS == "\\"

Ord(c) ==
  CASE c = NL  -> 10  [] c = " " -> 32  [] c = "." -> 46  [] c = "0" -> 48
    [] c = "1" -> 49  [] c = "D" -> 68  [] c = "F" -> 70  [] c = "K" -> 75
    [] c = "P" -> 80  [] c = "S" -> 83  [] c = BS  -> 92  [] c = "a" -> 97
    [] c = "b" -> 98  [] c = "c" -> 99  [] c = "d" -> 100 [] c = "f" -> 102
    [] c = "k" -> 107 [] c = "o" -> 111 [] c = "p" -> 112 [] c = "s" -> 115
    [] c = "x" -> 120

IsUpper(c) == Ord(c) \in 65..90
IsAlnum(c) == Ord(c) \in (48..57) \cup (65..90) \cup (97..122)
\* A regex word character: [A-Za-z0-9_].
IsWordChar(c) == IsAlnum(c) \/ Ord(c) = 95
\* str.strip() / str.split() whitespace.
IsSpace(c) == Ord(c) \in {9, 10, 11, 12, 13, 32}

\* re.IGNORECASE folding of one character.
Lower(c) ==
  IF IsUpper(c)
    THEN CASE c = "D" -> "d" [] c = "F" -> "f" [] c = "K" -> "k"
           [] c = "P" -> "p" [] c = "S" -> "s"
    ELSE c

\* Python's str < str: by code point, a proper prefix first.
RECURSIVE StrLess(_, _)
StrLess(a, b) ==
  IF b = <<>> THEN FALSE
  ELSE IF a = <<>> THEN TRUE
  ELSE IF Head(a) # Head(b) THEN Ord(Head(a)) < Ord(Head(b))
  ELSE StrLess(Tail(a), Tail(b))

\* str.endswith(suffix): case-sensitive.
EndsWith(s, suffix) ==
  /\ Len(s) >= Len(suffix)
  /\ SubSeq(s, Len(s) - Len(suffix) + 1, Len(s)) = suffix

\* ---------------------------------------------------- term list (line 34)
\* str.split('\n'): the pieces between the newlines, empty pieces kept.
RECURSIVE SplitLines(_)
SplitLines(s) ==
  IF \A i \in 1..Len(s) : s[i] # NL THEN <<s>>
  ELSE LET n == CHOOSE i \in 1..Len(s) :
                  s[i] = NL /\ \A j \in 1..(i - 1) : s[j] # NL
       IN <<SubSeq(s, 1, n - 1)>> \o SplitLines(SubSeq(s, n + 1, Len(s)))

\* str.strip(): leading and trailing whitespace removed.
RECURSIVE Strip(_)
Strip(s) ==
  IF s = <<>> THEN s
  ELSE IF IsSpace(Head(s)) THEN Strip(Tail(s))
  ELSE IF IsSpace(s[Len(s)]) THEN Strip(SubSeq(s, 1, Len(s) - 1))
  ELSE s

\* [x.strip() for x in ksb_input.split('\n') if x.strip()]
RECURSIVE StripNonBlank(_)
StripNonBlank(lines) ==
  IF lines = <<>> THEN <<>>
  ELSE IF Strip(Head(lines)) # <<>>
    THEN <<Strip(Head(lines))>> \o StripNonBlank(Tail(lines))
  ELSE StripNonBlank(Tail(lines))

ParseKsbs(ksb_input) == StripNonBlank(SplitLines(ksb_input))

\* --------------------------------------------- the matcher (lines 47-48)
\* re.escape: a backslash before every character special to the pattern
\* language (of this alphabet: '.', ' ', backslash and newline).
IsSpecial(c) == c \in {".", " ", BS, NL}

RECURSIVE Escape(_)
Escape(s) ==
  IF s = <<>> THEN <<>>
  ELSE (IF IsSpecial(Head(s)) THEN <<BS, Head(s)>> ELSE <<Head(s)>>)
       \o Escape(Tail(s))

\* r'\b' + re.escape(term) + r'\b'
Pattern(term) == <<BS, "b">> \o Escape(term) \o <<BS, "b">>

\* The pattern text as the regex compiler reads it: backslash-b is the word
\* boundary, a backslash before a non-alphanumeric character makes it a
\* literal, an unescaped '.' is any character but a newline, any other
\* character of the alphabet stands for itself.
RECURSIVE Compile(_)
Compile(p) ==
  IF p = <<>> THEN <<>>
  ELSE IF Head(p) = BS
    THEN (CASE p[2] = "b" -> <<[kind |-> "boundary"]>>
            [] ~IsAlnum(p[2]) -> <<[kind |-> "lit", ch |-> p[2]]>>)
         \o Compile(SubSeq(p, 3, Len(p)))
  ELSE (IF Head(p) = "." THEN <<[kind |-> "any"]>>
        ELSE <<[kind |-> "lit", ch |-> Head(p)]>>)
       \o Compile(Tail(p))

WordAt(text, pos) == pos \in 1..Len(text) /\ IsWordChar(text[pos])

\* \b holds between pos-1 and pos when exactly one side is a word character.
AtBoundary(text, pos) == WordAt(text, pos - 1) # WordAt(text, pos)

RECURSIVE MatchAt(_, _, _)
MatchAt(atoms, text, pos) ==
  IF atoms = <<>> THEN TRUE
  ELSE LET a == Head(atoms) IN
    CASE a.kind = "boundary" ->
           AtBoundary(text, pos) /\ MatchAt(Tail(atoms), text, pos)
      [] a.kind = "lit" ->
           /\ pos <= Len(text)
           /\ Lower(text[pos]) = Lower(a.ch)
           /\ MatchAt(Tail(atoms), text, pos + 1)
      [] a.kind = "any" ->
           /\ pos <= Len(text)
           /\ text[pos] # NL
           /\ MatchAt(Tail(atoms), text, pos + 1)

\* re.search(pattern, text, re.IGNORECASE) is not None
ReSearch(pattern, text) ==
  \E pos \in 1..(Len(text) + 1) : MatchAt(Compile(pattern), text, pos)

TermFound(term, text) == ReSearch(Pattern(term), text)

\* ------------------------------------------ extraction (lines 37-69)
\* Line 67: the Page Number of every row of a Word document.
NA_Word == "N/A (Word)"

\* The enumerate() index used as it is: pages numbered from 0.
PageNumber_ZeroBased(i) == i

\* Page Number of the row of the page at enumerate() index i (line 52).
PageNumber(i) == i + 1

\* Lines 46-53: the rows of one page text, one per term of search_terms, in
\* the order of search_terms, for the terms re.search finds.
RECURSIVE TermRows(_, _, _, _)
TermRows(text, search_terms, doc_title, locator) ==
  IF search_terms = <<>> THEN <<>>
  ELSE (IF TermFound(Head(search_terms), text)
          THEN <<[Document |-> doc_title,
                  KSB_Reference |-> Head(search_terms),
                  Page_Number |-> locator]>>
          ELSE <<>>)
       \o TermRows(text, Tail(search_terms), doc_title, locator)

\* Lines 44-53: one iteration of the page loop; `if text:` skips a page
\* whose extraction gave no text.
PageRows(text, search_terms, doc_title, i) ==
  IF text # <<>>
    THEN TermRows(text, search_terms, doc_title, PageNumber(i))
    ELSE <<>>

\* The progress computed from the index of the page, not from the count.
ProgressAfter_IndexOnly(i, pages_total) == [num |-> i, den |-> pages_total]

\* Line 54: progress_bar.progress((i + 1) / total_pages), as a fraction.
ProgressAfter(i, pages_total) == [num |-> i + 1, den |-> pages_total]

\* Line 60: "\n".join(para.text for para in doc.paragraphs)
RECURSIVE JoinLines(_)
JoinLines(paras) ==
  IF paras = <<>> THEN <<>>
  ELSE IF Len(paras) = 1 THEN Head(paras)
  ELSE Head(paras) \o <<NL>> \o JoinLines(Tail(paras))

\* Lines 57-69.
ExtractMappingsDocx(file, search_terms, doc_title) ==
  TermRows(JoinLines(file.pages), search_terms, doc_title, NA_Word)

\* ------------------------------------------- aggregation (line 97)
\* df.sort_values(by=['Document', 'KSB Reference']): ascending by the two
\* string columns, rows of equal key in their order of insertion.
KeyLess(r1, r2) ==
  \/ StrLess(r1.Document, r2.Document)
  \/ /\ r1.Document = r2.Document
     /\ StrLess(r1.KSB_Reference, r2.KSB_Reference)

RECURSIVE InsertSorted(_, _)
InsertSorted(r, rows) ==
  IF rows = <<>> THEN <<r>>
  ELSE IF KeyLess(r, Head(rows)) THEN <<r>> \o rows
  ELSE <<Head(rows)>> \o InsertSorted(r, Tail(rows))

\* A sort by the same key that does not keep rows of equal key in order.
RECURSIVE SortValues_TiesReversed(_)
SortValues_TiesReversed(rows) ==
  IF rows = <<>> THEN <<>>
  ELSE InsertSorted(Head(rows), SortValues_TiesReversed(Tail(rows)))

RECURSIVE SortValues(_)
SortValues(rows) ==
  IF rows = <<>> THEN <<>>
  ELSE InsertSorted(rows[Len(rows)], SortValues(SubSeq(rows, 1, Len(rows) - 1)))

\* The number of documents reported as the number of matches.
MatchCount_Documents(table, files) == Len(files)

\* Line 99: the count of the success message.
MatchCount(table, files) == Len(table)

\* ----------------------------------------------------------- inputs
\* Page texts of the longest PDF, repeated in this order.
PageCycle ==
  << <<"S","1","0"," ","s","1">>,
     <<>>,
     <<"K"," ","S","1",".">>,
     <<"S","1","0">> >>

PdfName(c) == <<c, ".", "p", "d", "f">>

\* The documents a user may upload: name, content format, the text of the
\* pages (PDF) or paragraphs (Word), and the number of the page whose
\* extract_text() raises (0: none).  The uploader accepts a file by its
\* extension alone, so the content of a file named *.pdf need not be a PDF
\* ("bad": pdfplumber.open raises).
Documents ==
  { [name |-> PdfName("a"), fmt |-> "pdf", raises_at |-> 0,
     pages |-> [n \in 1..MaxPages |-> PageCycle[((n - 1) % Len(PageCycle)) + 1]]],
    [name |-> PdfName("b"), fmt |-> "pdf", raises_at |-> 2,
     pages |-> << <<"K"," ","S","1",".">>, <<>> >>],
    [name |-> <<"b", ".", "d", "o", "c", "x">>, fmt |-> "docx", raises_at |-> 0,
     pages |-> << <<"S","1","0">>, <<"s","1"," ","K">> >>],
    [name |-> <<"c", ".", "P", "D", "F">>, fmt |-> "pdf", raises_at |-> 0,
     pages |-> << <<"S","1">> >>],
    [name |-> PdfName("d"), fmt |-> "bad", raises_at |-> 0, pages |-> <<>>] }

\* What a user may type into one "KSBs for <name>" text area.
KsbInputs ==
  { <<" ", NL>>,
    <<"S","1", NL, "S","1">>,
    <<"s","1", NL, " ","K", NL, NL, "S","1","0">>,
    <<"S","1",".", NL, "K">> }

SeqsUpTo(S, n) == UNION { [1..m -> S] : m \in 0..n }

\* ------------------------------------------------------------ state
VARIABLES
  uploaded_files,  \* line 19: the files of the uploader, in upload order
  ksb_inputs,      \* line 30: the text of each file's text area
  file_ksb_map,    \* line 26: file name -> term list
  side_i,          \* line 29: files whose text area has been rendered
  pc,              \* position of the script
  clicked,         \* line 72: st.button returned True
  file_i,          \* line 79: index of the file of the loop
  ksb_list,        \* line 80
  total_pages,     \* line 40
  page_i,          \* line 43: pages handled of the open PDF
  progress,        \* lines 41, 54: value of the progress bar
  results,         \* line 38: rows of the open PDF so far
  mappings,        \* lines 86-91
  all_results,     \* line 76
  df,              \* lines 96-97: the displayed table
  downloads,       \* lines 107-119: the download buttons and their rows
  messages         \* st.error / st.success / st.warning, in order

vars == <<uploaded_files, ksb_inputs, file_ksb_map, side_i, pc, clicked,
          file_i, ksb_list, total_pages, page_i, progress, results,
          mappings, all_results, df, downloads, messages>>

inputs == <<uploaded_files, ksb_inputs>>
scan_locals == <<total_pages, page_i, progress, results>>
outputs == <<df, downloads, messages>>

NoProgress == [num |-> 0, den |-> 1]

Init ==
  /\ uploaded_files \in SeqsUpTo(Documents, MaxFiles)
  /\ ksb_inputs \in [1..Len(uploaded_files) -> KsbInputs]
  /\ file_ksb_map = <<>>
  /\ side_i = 0
  /\ pc = "sidebar"
  /\ clicked = FALSE
  /\ file_i = 0
  /\ ksb_list = <<>>
  /\ total_pages = 0
  /\ page_i = 0
  /\ progress = NoProgress
  /\ results = <<>>
  /\ mappings = <<>>
  /\ all_results = <<>>
  /\ df = <<>>
  /\ downloads = <<>>
  /\ messages = <<>>

\* dict assignment and dict.get(key, default)
DictSet(d, key, value) ==
  [n \in DOMAIN d \cup {key} |-> IF n = key THEN value ELSE d[n]]
DictGet(d, key, default) == IF key \in DOMAIN d THEN d[key] ELSE default

CurFile == uploaded_files[file_i]

\* ----------------------------------------------- sidebar (lines 26-34)
\* One iteration of `for file in uploaded_files`: the text area of the file
\* and the entry of file_ksb_map under the file's name.
SidebarTextArea ==
  /\ pc = "sidebar"
  /\ side_i < Len(uploaded_files)
  /\ file_ksb_map' = DictSet(file_ksb_map, uploaded_files[side_i + 1].name,
                             ParseKsbs(ksb_inputs[side_i + 1]))
  /\ side_i' = side_i + 1
  /\ UNCHANGED <<inputs, pc, clicked, file_i, ksb_list, scan_locals,
                 mappings, all_results, outputs>>

\* The text areas carry no key, so Streamlit identifies each by its label
\* "KSBs for <name>".  A release that enforces unique widget identity raises
\* DuplicateWidgetID at the second text area of the same label, outside any
\* try: the script stops there.  The repository pins no release, so both
\* outcomes of a repeated label are kept.
SidebarDuplicateWidget ==
  /\ pc = "sidebar"
  /\ side_i < Len(uploaded_files)
  /\ \E j \in 1..side_i :
       uploaded_files[j].name = uploaded_files[side_i + 1].name
  /\ pc' = "stopped"
  /\ UNCHANGED <<inputs, file_ksb_map, side_i, clicked, file_i, ksb_list,
                 scan_locals, mappings, all_results, outputs>>

SidebarDone ==
  /\ pc = "sidebar"
  /\ side_i = Len(uploaded_files)
  /\ pc' = "button"
  /\ UNCHANGED <<inputs, file_ksb_map, side_i, clicked, file_i, ksb_list,
                 scan_locals, mappings, all_results, outputs>>

\* ------------------------------------------------- button (lines 72-76)
ErrorNoUpload ==
  [level |-> "error", text |-> "Please upload at least one document."]
ErrorOccurred == [level |-> "error", text |-> "An error occurred"]
WarningNothing ==
  [level |-> "warning", text |-> "No KSBs found in the uploaded documents."]
Success(n, docs) ==
  [level |-> "success", text |-> "Found matches", matches |-> n,
   documents |-> docs]

\* The button was not pressed in this execution: the script ends.
ButtonIdle ==
  /\ pc = "button"
  /\ pc' = "done"
  /\ UNCHANGED <<inputs, file_ksb_map, side_i, clicked, file_i, ksb_list,
                 scan_locals, mappings, all_results, outputs>>

ClickNoFiles ==
  /\ pc = "button"
  /\ uploaded_files = <<>>
  /\ clicked' = TRUE
  /\ messages' = Append(messages, ErrorNoUpload)
  /\ pc' = "done"
  /\ UNCHANGED <<inputs, file_ksb_map, side_i, file_i, ksb_list,
                 scan_locals, mappings, all_results, df, downloads>>

ClickScan ==
  /\ pc = "button"
  /\ uploaded_files # <<>>
  /\ clicked' = TRUE
  /\ all_results' = <<>>
  /\ file_i' = 1
  /\ pc' = "loop"
  /\ UNCHANGED <<inputs, file_ksb_map, side_i, ksb_list, scan_locals,
                 mappings, outputs>>

\* ---------------------------------------- document loop (lines 79-93)
InLoop == pc = "loop" /\ file_i <= Len(uploaded_files)
Lookup == DictGet(file_ksb_map, CurFile.name, <<>>)
IsPdfName(name) == EndsWith(name, <<".", "p", "d", "f">>)
IsDocxName(name) == EndsWith(name, <<".", "d", "o", "c", "x">>)

\* Lines 81-82: no terms for the file's name: on to the next file.
SkipNoTerms ==
  /\ InLoop
  /\ Lookup = <<>>
  /\ ksb_list' = Lookup
  /\ file_i' = file_i + 1
  /\ UNCHANGED <<inputs, file_ksb_map, side_i, pc, clicked, scan_locals,
                 mappings, all_results, outputs>>

\* Lines 84-86, 39-41: pdfplumber opens the file, the progress bar starts.
OpenPdf ==
  /\ InLoop
  /\ Lookup # <<>>
  /\ IsPdfName(CurFile.name)
  /\ CurFile.fmt = "pdf"
  /\ ksb_list' = Lookup
  /\ total_pages' = Len(CurFile.pages)
  /\ progress' = NoProgress
  /\ results' = <<>>
  /\ page_i' = 0
  /\ pc' = "pages"
  /\ UNCHANGED <<inputs, file_ksb_map, side_i, clicked, file_i, mappings,
                 all_results, outputs>>

\* Lines 43-54: one page.
ScanPage ==
  /\ pc = "pages"
  /\ page_i < total_pages
  /\ CurFile.raises_at # page_i + 1
  /\ results' = results \o PageRows(CurFile.pages[page_i + 1], ksb_list,
                                    CurFile.name, page_i)
  /\ progress' = ProgressAfter(page_i, total_pages)
  /\ page_i' = page_i + 1
  /\ UNCHANGED <<inputs, file_ksb_map, side_i, pc, clicked, file_i,
                 ksb_list, total_pages, mappings, all_results, outputs>>

\* Line 55.
ReturnPdf ==
  /\ pc = "pages"
  /\ page_i = total_pages
  /\ mappings' = results
  /\ pc' = "extend"
  /\ UNCHANGED <<inputs, file_ksb_map, side_i, clicked, file_i, ksb_list,
                 scan_locals, all_results, outputs>>

\* Lines 87-89, 57-69.
ScanDocx ==
  /\ InLoop
  /\ Lookup # <<>>
  /\ ~IsPdfName(CurFile.name)
  /\ IsDocxName(CurFile.name)
  /\ CurFile.fmt = "docx"
  /\ ksb_list' = Lookup
  /\ mappings' = ExtractMappingsDocx(CurFile, Lookup, CurFile.name)
  /\ pc' = "extend"
  /\ UNCHANGED <<inputs, file_ksb_map, side_i, clicked, file_i,
                 scan_locals, all_results, outputs>>

\* Lines 90-91: neither suffix.
OtherName ==
  /\ InLoop
  /\ Lookup # <<>>
  /\ ~IsPdfName(CurFile.name)
  /\ ~IsDocxName(CurFile.name)
  /\ ksb_list' = Lookup
  /\ mappings' = <<>>
  /\ pc' = "extend"
  /\ UNCHANGED <<inputs, file_ksb_map, side_i, clicked, file_i,
                 scan_locals, all_results, outputs>>

\* pdfplumber.open (line 39) and Document(file) (line 59) raise on content
\* they cannot parse.
OpenRaises(file) ==
  IF IsPdfName(file.name) THEN file.fmt # "pdf"
  ELSE IsDocxName(file.name) /\ file.fmt # "docx"

\* The exception leaves the loop for the handler of lines 123-124, which
\* ends the run.
DocumentRaises ==
  /\ InLoop
  /\ Lookup # <<>>
  /\ OpenRaises(CurFile)
  /\ ksb_list' = Lookup
  /\ messages' = Append(messages, ErrorOccurred)
  /\ pc' = "done"
  /\ UNCHANGED <<inputs, file_ksb_map, side_i, clicked, file_i,
                 scan_locals, mappings, all_results, df, downloads>>

\* Line 44: page.extract_text() raises; same handler.
PageRaises ==
  /\ pc = "pages"
  /\ page_i < total_pages
  /\ CurFile.raises_at = page_i + 1
  /\ messages' = Append(messages, ErrorOccurred)
  /\ pc' = "done"
  /\ UNCHANGED <<inputs, file_ksb_map, side_i, clicked, file_i, ksb_list,
                 scan_locals, mappings, all_results, df, downloads>>

\* Line 93.
Extend ==
  /\ pc = "extend"
  /\ all_results' = all_results \o mappings
  /\ file_i' = file_i + 1
  /\ pc' = "loop"
  /\ UNCHANGED <<inputs, file_ksb_map, side_i, clicked, ksb_list,
                 scan_locals, mappings, outputs>>

\* ------------------------------------------------ report (lines 95-121)
Report ==
  /\ pc = "loop"
  /\ file_i > Len(uploaded_files)
  /\ IF all_results # <<>>
       THEN LET table == SortValues(all_results) IN
            /\ df' = table
            /\ messages' = Append(messages,
                 Success(MatchCount(table, uploaded_files), Len(uploaded_files)))
            /\ downloads' =
                 << [file_name |-> "All_KSB_Mappings.xlsx", rows |-> table],
                    [file_name |-> "All_KSB_Mappings.csv", rows |-> table] >>
       ELSE /\ messages' = Append(messages, WarningNothing)
            /\ UNCHANGED <<df, downloads>>
  /\ pc' = "done"
  /\ UNCHANGED <<inputs, file_ksb_map, side_i, clicked, file_i, ksb_list,
                 scan_locals, mappings, all_results>>

Next ==
  \/ SidebarTextArea
  \/ SidebarDuplicateWidget
  \/ SidebarDone
  \/ ButtonIdle
  \/ ClickNoFiles
  \/ ClickScan
  \/ SkipNoTerms
  \/ OpenPdf
  \/ ScanPage
  \/ ReturnPdf
  \/ ScanDocx
  \/ OtherName
  \/ DocumentRaises
  \/ PageRaises
  \/ Extend
  \/ Report

Spec == Init /\ [][Next]_vars

\* ================================================================ claims
RowSet(rows) == { rows[n] : n \in DOMAIN rows }
Occurrences(r, rows) == Cardinality({ n \in DOMAIN rows : rows[n] = r })
Row(doc_title, term, locator) ==
  [Document |-> doc_title, KSB_Reference |-> term, Page_Number |-> locator]

\* The (term, page) pairs of a PDF whose page has text in which the matcher
\* finds the term, as rows.
ExpectedPdfRows(file, terms) ==
  { Row(file.name, terms[tp[1]], tp[2]) :
      tp \in { x \in (DOMAIN terms) \X (DOMAIN file.pages) :
                 /\ file.pages[x[2]] # <<>>
                 /\ TermFound(terms[x[1]], file.pages[x[2]]) } }

\* The terms the matcher finds in the joined paragraphs, as rows.
ExpectedDocxRows(file, terms) ==
  { Row(file.name, terms[t], NA_Word) :
      t \in { x \in DOMAIN terms : TermFound(terms[x], JoinLines(file.pages)) } }

\* The matches of a file's content, by the format of the content.
ExpectedRows(file, terms) ==
  IF file.fmt = "pdf" THEN ExpectedPdfRows(file, terms)
  ELSE IF file.fmt = "docx" THEN ExpectedDocxRows(file, terms)
  ELSE {}

\* The term list the user entered for the file at index j.
OwnTerms(j) == ParseKsbs(ksb_inputs[j])

\* The term list the script holds for the file at index j.
MapTerms(j) == DictGet(file_ksb_map, uploaded_files[j].name, <<>>)

\* Scanning file j raises: it has terms, and its name sends it to a parser
\* that cannot open it or cannot read one of its pages.
FileRaises(j) ==
  LET f == uploaded_files[j] IN
  /\ MapTerms(j) # <<>>
  /\ \/ OpenRaises(f)
     \/ IsPdfName(f.name) /\ f.raises_at \in DOMAIN f.pages

\* The rows the extraction functions give for file j when it is scanned.
ScanRows(j) ==
  LET f == uploaded_files[j] IN
  IF FileRaises(j) \/ MapTerms(j) = <<>> THEN {}
  ELSE IF IsPdfName(f.name) THEN ExpectedPdfRows(f, MapTerms(j))
  ELSE IF IsDocxName(f.name) THEN ExpectedDocxRows(f, MapTerms(j))
  ELSE {}

RunEnded == pc = "done" /\ clicked

\* C1: in a multi-document run in which a document fails to open or parse,
\* the remaining documents are still scanned: the rows of every document
\* that parses, before and after the failing one, are in the final table
\* and in the exports, and the failure is reported.
C1_BatchContinuesAfterFailure ==
  (RunEnded /\ \E j \in DOMAIN uploaded_files : FileRaises(j))
    => /\ \E m \in DOMAIN messages : messages[m].level = "error"
       /\ \A j \in DOMAIN uploaded_files :
            /\ ScanRows(j) \subseteq RowSet(df)
            /\ ScanRows(j) # {} => Len(downloads) = 2
            /\ \A d \in DOMAIN downloads :
                 ScanRows(j) \subseteq RowSet(downloads[d].rows)

\* C2: a run in which a document has zero terms (after trimming and
\* dropping blank lines) reports an input validation error, never the
\* "nothing found" warning or nothing at all.
C2_ZeroTermsIsInputError ==
  (RunEnded /\ \E j \in DOMAIN uploaded_files : OwnTerms(j) = <<>>)
    => /\ \E m \in DOMAIN messages : messages[m].level = "error"
       /\ \A m \in DOMAIN messages : messages[m] # WarningNothing

\* T occurs in P, compared literally and without regard to case, with no
\* word character directly before or after the occurrence.
StandaloneOccurs(term, text) ==
  \E pos \in 1..(Len(text) - Len(term) + 1) :
    /\ \A n \in 1..Len(term) : Lower(text[pos + n - 1]) = Lower(term[n])
    /\ ~WordAt(text, pos - 1)
    /\ ~WordAt(text, pos + Len(term))

\* C3: for every term and every page text, the matcher reports a match if
\* and only if the term occurs in the page as a standalone word (literally,
\* case-insensitively), whatever characters the term begins or ends with.
C3_MatchIffStandaloneWord ==
  (pc = "extend" /\ IsPdfName(CurFile.name))
    => \A t \in DOMAIN ksb_list : \A p \in DOMAIN CurFile.pages :
         CurFile.pages[p] # <<>>
           => ((Row(CurFile.name, ksb_list[t], p) \in RowSet(mappings))
                 <=> StandaloneOccurs(ksb_list[t], CurFile.pages[p]))

\* C4: whatever the entered term list (a term may be on several lines), the
\* rows of one document hold at most one row per (term, page) for a PDF and
\* at most one row per term for a Word document.
C4_AtMostOneRowPerTermAndPage ==
  pc = "extend"
    => \A n, m \in DOMAIN mappings :
         (/\ mappings[n].KSB_Reference = mappings[m].KSB_Reference
          /\ mappings[n].Page_Number = mappings[m].Page_Number) => n = m

\* C5: the rows an extraction function returns are exactly the matching
\* pairs.  PDF: a row (term, i) with i the 1-based page number exists iff
\* page i has text in which the term matches, so a term that matches
\* nowhere, a page without a match and a page without text give no row.
\* Word: a row exists iff the term matches the newline-joined paragraphs,
\* and its Page Number is the "N/A (Word)" marker.
C5_RowsAreExactlyTheMatches ==
  pc = "extend"
    => /\ IsPdfName(CurFile.name)
            => RowSet(mappings) = ExpectedPdfRows(CurFile, ksb_list)
       /\ (~IsPdfName(CurFile.name) /\ IsDocxName(CurFile.name))
            => /\ RowSet(mappings) = ExpectedDocxRows(CurFile, ksb_list)
               /\ \A n \in DOMAIN mappings :
                    mappings[n].Page_Number = NA_Word

\* C5 witness: a PDF scan has returned with a row of page 3, a page without
\* text and a term that matched nowhere.
C5_Witness ==
  /\ pc = "extend"
  /\ IsPdfName(CurFile.name)
  /\ \E n \in DOMAIN mappings : mappings[n].Page_Number = 3
  /\ \E p \in DOMAIN CurFile.pages : CurFile.pages[p] = <<>>
  /\ \E t \in DOMAIN ksb_list :
       \A n \in DOMAIN mappings : mappings[n].KSB_Reference # ksb_list[t]

SameKey(r1, r2) ==
  r1.Document = r2.Document /\ r1.KSB_Reference = r2.KSB_Reference

\* The rows of a table that have the key of r, in table order.
WithKeyOf(r, rows) == LET Same(x) == SameKey(x, r) IN SelectSeq(rows, Same)

UploadedOnce(name) ==
  Cardinality({ j \in DOMAIN uploaded_files : uploaded_files[j].name = name }) = 1

\* C6: the final table is a permutation of the concatenated rows of all
\* documents (nothing dropped, nothing deduplicated), sorted by (Document,
\* KSB Reference); rows of equal key keep their order of insertion, so the
\* rows of one term within one PDF are in ascending page number.
C6_TableIsStableSortOfAllRows ==
  (RunEnded /\ df # <<>>)
    => /\ Len(df) = Len(all_results)
       /\ \A r \in RowSet(all_results) \cup RowSet(df) :
            Occurrences(r, df) = Occurrences(r, all_results)
       /\ \A n \in 1..(Len(df) - 1) :
            \/ SameKey(df[n], df[n + 1])
            \/ StrLess(df[n].Document, df[n + 1].Document)
            \/ /\ df[n].Document = df[n + 1].Document
               /\ StrLess(df[n].KSB_Reference, df[n + 1].KSB_Reference)
       /\ \A r \in RowSet(df) : WithKeyOf(r, df) = WithKeyOf(r, all_results)
       /\ \A n, m \in DOMAIN df :
            (/\ n < m
             /\ SameKey(df[n], df[m])
             /\ IsPdfName(df[n].Document)
             /\ UploadedOnce(df[n].Document))
              => df[n].Page_Number <= df[m].Page_Number

\* C6 witness: a displayed table that differs from the order of insertion
\* and holds two rows of one key on different pages.
C6_Witness ==
  /\ RunEnded
  /\ df # <<>>
  /\ df # all_results
  /\ \E n \in 1..(Len(df) - 1) :
       SameKey(df[n], df[n + 1]) /\ df[n].Page_Number # df[n + 1].Page_Number

\* No uploaded file raises when it is opened.
NoFileRaises == \A j \in DOMAIN uploaded_files : ~FileRaises(j)

Scanning == pc \in {"pages", "extend"} /\ IsPdfName(CurFile.name)

\* C8: while a PDF of N >= 1 pages is scanned, the progress value after
\* page i is i/N, also for pages without text; it never decreases during
\* the scan and equals 1 exactly when the last page has been handled.
C8_ProgressPerPage ==
  /\ [](Scanning /\ total_pages >= 1
          => /\ progress.num * total_pages = page_i * progress.den
             /\ (progress.num = progress.den) <=> (page_i = total_pages))
  /\ [][(pc = "pages" /\ pc' \in {"pages", "extend"})
          => /\ progress'.num * progress.den >= progress.num * progress'.den
             /\ page_i' \in {page_i, page_i + 1}]_vars

\* C8 witness: the second page of a three-page PDF had no text and the
\* progress stands at 2/3.
C8_Witness ==
  /\ pc = "pages"
  /\ page_i = 2
  /\ CurFile.pages[2] = <<>>
  /\ total_pages >= 3
  /\ progress.num * total_pages = 2 * progress.den

\* C9: every uploaded document is scanned with the term list entered for
\* it, also when two uploads share a file name: the list the loop finds
\* for a file is the file's own.
C9_ScannedWithOwnTerms ==
  /\ InLoop => Lookup = OwnTerms(file_i)
  /\ pc \in {"pages", "extend"} => ksb_list = OwnTerms(file_i)

\* C10: every uploaded document with a non-empty term list is scanned
\* according to its type, whatever the form of its file name: the rows
\* added for it are the matches of its content.
C10_EveryDocumentScannedByType ==
  pc = "extend" => RowSet(mappings) = ExpectedRows(CurFile, ksb_list)

=============================================================================
